---------------------------- MODULE Spec2Model ----------------------------
(***************************************************************************)
(* A model of ndindex/_crt.py: the extended Euclidean algorithm (gcdex),   *)
(* the direct Chinese Remainder routine (_crt), the general congruence     *)
(* solver (solve_congruence with its inner combine) and the public crt.    *)
(* The functions are pure; each is an operator computed the way the Python *)
(* code computes it, and an action applies it to inputs drawn from bounded *)
(* sets.  Python values are tagged records so that None, an int, a tuple   *)
(* and a raised exception stay distinguishable.                            *)
(***************************************************************************)
EXTENDS Integers, Sequences, FiniteSets

VARIABLES pc, fn, args, result

vars == <<pc, fn, args, result>>

(***************************************************************************)
(* Bounds of the input sets.                                               *)
(***************************************************************************)
MaxInt == 12
MaxLen == 2
MaxMod == 4
MaxRes == 1

(***************************************************************************)
(* Python values.                                                          *)
(***************************************************************************)
None == [type |-> "NoneType"]

PyInt(n) == [type |-> "int", int |-> n]

PyTuple(n, m) == [type |-> "tuple", items |-> <<n, m>>]

PyRaise(e) == [type |-> "exception", exc |-> e]

(***************************************************************************)
(* Python integer arithmetic: // floors and % takes the divisor's sign.    *)
(***************************************************************************)
PyAbs(a) == IF a < 0 THEN -a ELSE a

PyFloorDiv(a, b) == IF b > 0 THEN a \div b ELSE (-a) \div (-b)

PyMod(a, b) == a - b * PyFloorDiv(a, b)

RECURSIVE PyGcd(_, _)
PyGcd(a, b) == IF b = 0 THEN PyAbs(a) ELSE PyGcd(b, PyMod(a, b))

(***************************************************************************)
(* gcdex(a, b): returns <<x, y, g>>.                                       *)
(***************************************************************************)
RECURSIVE gcdexLoop(_, _, _, _, _, _)
gcdexLoop(a, b, r, s, x, y) ==
    IF b # 0
    THEN LET c == PyMod(a, b)
             q == PyFloorDiv(a, b)
         IN  gcdexLoop(b, c, x - q * r, y - q * s, r, s)
    ELSE <<x, y, a>>

\* gcdex with the extracted signs not put back on x and y.
gcdexUnsigned(a, b) ==
    IF a = 0 /\ b = 0 THEN <<0, 1, 0>>
    ELSE IF a = 0 THEN <<0, PyFloorDiv(b, PyAbs(b)), PyAbs(b)>>
    ELSE IF b = 0 THEN <<PyFloorDiv(a, PyAbs(a)), 0, PyAbs(a)>>
    ELSE gcdexLoop(PyAbs(a), PyAbs(b), 0, 1, 1, 0)

gcdex(a, b) ==
    IF a = 0 /\ b = 0 THEN <<0, 1, 0>>
    ELSE IF a = 0 THEN <<0, PyFloorDiv(b, PyAbs(b)), PyAbs(b)>>
    ELSE IF b = 0 THEN <<PyFloorDiv(a, PyAbs(a)), 0, PyAbs(a)>>
    ELSE LET x_sign == IF a < 0 THEN -1 ELSE 1
             y_sign == IF b < 0 THEN -1 ELSE 1
             t == gcdexLoop(PyAbs(a), PyAbs(b), 0, 1, 1, 0)
         IN  <<t[1] * x_sign, t[2] * y_sign, t[3]>>

(***************************************************************************)
(* prod(seq): reduce(mul, seq, 1).                                         *)
(***************************************************************************)
RECURSIVE prodFrom(_, _, _)
prodFrom(seq, i, acc) ==
    IF i > Len(seq) THEN acc ELSE prodFrom(seq, i + 1, acc * seq[i])

prod(seq) == prodFrom(seq, 1, 1)

\* zip(U, M) stops at the shorter of the two sequences.
zipLen(U, M) == IF Len(U) < Len(M) THEN Len(U) ELSE Len(M)

(***************************************************************************)
(* _crt(U, M): the direct Chinese Remainder sum, an integer.               *)
(***************************************************************************)
RECURSIVE crtLoop(_, _, _, _, _)
crtLoop(U, M, p, i, v) ==
    IF i > zipLen(U, M) THEN v
    ELSE LET u == U[i]
             m == M[i]
             e == PyFloorDiv(p, m)
             s == gcdex(e, m)[1]
         IN  crtLoop(U, M, p, i + 1, v + e * PyMod(u * s, m))

\* _crt with the sum not reduced modulo the product.
_crtUnreduced(U, M) == crtLoop(U, M, prod(M), 1, 0)

_crt(U, M) ==
    LET p == prod(M)
    IN  PyMod(crtLoop(U, M, p, 1, 0), p)

(***************************************************************************)
(* solve_congruence.combine(c1, c2): None or the tuple (a, m).             *)
(***************************************************************************)
\* combine with the test of gcdex's g left out.
combineUntested(c1, c2) ==
    LET a1 == c1[1]
        m1 == c1[2]
        a2 == c2[1]
        m2 == c2[2]
        g  == PyGcd(PyGcd(m1, a2 - a1), m2)
        a  == PyFloorDiv(m1, g)
        b  == PyFloorDiv(a2 - a1, g)
        c  == PyFloorDiv(m2, g)
    IN  IF a # 1
        THEN PyTuple(a1 + m1 * (b * gcdex(a, c)[1]), m1 * c)
        ELSE PyTuple(a1 + m1 * b, m1 * c)

combine(c1, c2) ==
    LET a1 == c1[1]
        m1 == c1[2]
        a2 == c2[1]
        m2 == c2[2]
        g  == PyGcd(PyGcd(m1, a2 - a1), m2)
        a  == PyFloorDiv(m1, g)
        b  == PyFloorDiv(a2 - a1, g)
        c  == PyFloorDiv(m2, g)
    IN  IF a # 1
        THEN LET t == gcdex(a, c)
             IN  IF t[3] # 1 THEN None
                 ELSE PyTuple(a1 + m1 * (b * t[1]), m1 * c)
        ELSE PyTuple(a1 + m1 * b, m1 * c)

(***************************************************************************)
(* The check branch of solve_congruence: residues reduced, one pair kept   *)
(* per modulus in first-seen order (a dict keeps insertion order); None as *)
(* soon as two pairs of one modulus disagree.  uniq holds the (r, m) list  *)
(* that rm becomes.                                                        *)
(***************************************************************************)
\* The check branch keeping the first pair of a modulus whatever the later
\* residues are.
RECURSIVE uniqLoopFirstWins(_, _, _)
uniqLoopFirstWins(rm, i, uniq) ==
    IF i > Len(rm) THEN [type |-> "list", items |-> uniq]
    ELSE LET m == rm[i][2]
             r == PyMod(rm[i][1], m)
         IN  IF \E k \in 1..Len(uniq) : uniq[k][2] = m
             THEN uniqLoopFirstWins(rm, i + 1, uniq)
             ELSE uniqLoopFirstWins(rm, i + 1, Append(uniq, <<r, m>>))

\* The check branch comparing the residues as given, r %= m left out.
RECURSIVE uniqLoopUnreduced(_, _, _)
uniqLoopUnreduced(rm, i, uniq) ==
    IF i > Len(rm) THEN [type |-> "list", items |-> uniq]
    ELSE LET m == rm[i][2]
             r == rm[i][1]
         IN  IF \E k \in 1..Len(uniq) : uniq[k][2] = m
             THEN IF \E k \in 1..Len(uniq) : uniq[k][2] = m /\ uniq[k][1] # r
                  THEN None
                  ELSE uniqLoopUnreduced(rm, i + 1, uniq)
             ELSE uniqLoopUnreduced(rm, i + 1, Append(uniq, <<r, m>>))

RECURSIVE uniqLoop(_, _, _)
uniqLoop(rm, i, uniq) ==
    IF i > Len(rm) THEN [type |-> "list", items |-> uniq]
    ELSE LET m == rm[i][2]
             r == PyMod(rm[i][1], m)
         IN  IF \E k \in 1..Len(uniq) : uniq[k][2] = m
             THEN IF \E k \in 1..Len(uniq) : uniq[k][2] = m /\ uniq[k][1] # r
                  THEN None
                  ELSE uniqLoop(rm, i + 1, uniq)
             ELSE uniqLoop(rm, i + 1, Append(uniq, <<r, m>>))

(***************************************************************************)
(* The fold of solve_congruence.  rv is carried unreduced from one combine *)
(* to the next; n is the reduced residue of the last pair combined, and is *)
(* unbound while no pair has been combined.                                *)
(***************************************************************************)
\* The fold with n = n % m left out.
RECURSIVE foldLoopUnreduced(_, _, _, _)
foldLoopUnreduced(rm, i, rv, n) ==
    IF i > Len(rm)
    THEN IF n.type = "unbound" THEN PyRaise("UnboundLocalError") ELSE n
    ELSE LET nrv == combine(rv, rm[i])
         IN  IF nrv = None THEN None
             ELSE foldLoopUnreduced(rm, i + 1, nrv.items, PyInt(nrv.items[1]))

RECURSIVE foldLoop(_, _, _, _)
foldLoop(rm, i, rv, n) ==
    IF i > Len(rm)
    THEN IF n.type = "unbound" THEN PyRaise("UnboundLocalError") ELSE n
    ELSE LET nrv == combine(rv, rm[i])
         IN  IF nrv = None THEN None
             ELSE foldLoop(rm, i + 1, nrv.items,
                           PyInt(PyMod(nrv.items[1], nrv.items[2])))

solve_congruence(rm, check) ==
    IF check
    THEN LET u == uniqLoop(rm, 1, <<>>)
         IN  IF u = None THEN None
             ELSE foldLoop(u.items, 1, <<0, 1>>, [type |-> "unbound"])
    ELSE foldLoop(rm, 1, <<0, 1>>, [type |-> "unbound"])

(***************************************************************************)
(* crt(m, v, check).                                                       *)
(***************************************************************************)
zip(U, M) == [i \in 1..zipLen(U, M) |-> <<U[i], M[i]>>]

\* crt returning the _crt result untested.
crtUntested(m, v, check) == PyInt(_crt(v, m))

crt(m, v, check) ==
    LET result0 == _crt(v, m)
    IN  IF check /\ ~(\A i \in 1..zipLen(v, m) :
                         PyMod(v[i], m[i]) = PyMod(result0, m[i]))
        THEN solve_congruence(zip(v, m), FALSE)
        ELSE PyInt(result0)

(***************************************************************************)
(* Input sets: integers, residues (one of them negative, which r %= m and  *)
(* the % of crt's check have to reduce), non-zero moduli of either sign,    *)
(* sequences of at most MaxLen entries, and the inputs of the docstring     *)
(* examples.                                                               *)
(***************************************************************************)
Ints == (-MaxInt)..MaxInt

Residues == (-1)..MaxRes

Moduli == ((-MaxMod)..MaxMod) \ {0}

PosModuli == 1..MaxMod

SeqsUpTo(S, lo) == UNION {[1..k -> S] : k \in lo..MaxLen}

SolveDocExamples ==
    { <<<<2, 3>>, <<3, 5>>, <<2, 7>>>>,
      <<<<2, 3>>, <<4, 6>>>>,
      <<<<2, 3>>, <<5, 6>>>> }

SolveInputs == SeqsUpTo(Residues \X Moduli, 0) \cup SolveDocExamples

CrtDocExamples ==
    { <<<<99, 97, 95>>, <<49, 76, 65>>>>,
      <<<<12, 6, 17>>, <<3, 4, 2>>>>,
      <<<<3, 6>>, <<2, 5>>>> }

CrtInputs ==
    UNION {[1..k -> PosModuli] \X [1..k -> Residues] : k \in 1..MaxLen}
        \cup CrtDocExamples

(***************************************************************************)
(* State machine.  The functions are pure and keep nothing between calls:  *)
(* a behaviour is one call.  Init draws the function and its arguments     *)
(* (pc = "call"); the function's action applies it and leaves the outcome  *)
(* in result (pc = "done").  gcdex's triple is held as a tuple value, the  *)
(* integer of _crt as an int value.                                        *)
(***************************************************************************)
InitGcdex ==
    /\ pc = "call"
    /\ fn = "gcdex"
    /\ args \in Ints \X Ints
    /\ result = None

InitCrt ==
    /\ pc = "call"
    /\ \/ /\ fn = "_crt"
          /\ args \in {<<in[2], in[1]>> : in \in CrtInputs}
       \/ /\ fn = "crt"
          /\ args \in {<<in[1], in[2], check>> : in \in CrtInputs, check \in BOOLEAN}
    /\ result = None

InitSolve ==
    /\ pc = "call"
    /\ fn = "solve_congruence"
    /\ args \in SolveInputs \X BOOLEAN
    /\ result = None

Init == InitGcdex \/ InitCrt \/ InitSolve

CallGcdex ==
    /\ pc = "call"
    /\ fn = "gcdex"
    /\ result' = [type |-> "tuple", items |-> gcdex(args[1], args[2])]
    /\ pc' = "done"
    /\ UNCHANGED <<fn, args>>

CallCrtDirect ==
    /\ pc = "call"
    /\ fn = "_crt"
    /\ result' = PyInt(_crt(args[1], args[2]))
    /\ pc' = "done"
    /\ UNCHANGED <<fn, args>>

CallSolveCongruence ==
    /\ pc = "call"
    /\ fn = "solve_congruence"
    /\ result' = solve_congruence(args[1], args[2])
    /\ pc' = "done"
    /\ UNCHANGED <<fn, args>>

CallCrt ==
    /\ pc = "call"
    /\ fn = "crt"
    /\ result' = crt(args[1], args[2], args[3])
    /\ pc' = "done"
    /\ UNCHANGED <<fn, args>>

NextGcdex == CallGcdex

SpecGcdex == InitGcdex /\ [][NextGcdex]_vars

NextCrt == CallCrtDirect \/ CallCrt

SpecCrt == InitCrt /\ [][NextCrt]_vars

NextSolve == CallSolveCongruence

SpecSolve == InitSolve /\ [][NextSolve]_vars

Next == CallGcdex \/ CallCrtDirect \/ CallSolveCongruence \/ CallCrt

Spec == Init /\ [][Next]_vars

\* The call of fn has returned or raised.
Done(f) == pc = "done" /\ fn = f

(***************************************************************************)
(* Mathematical yardsticks used by the properties; none of them is taken   *)
(* from the code.                                                          *)
(***************************************************************************)
Divides(d, n) == d # 0 /\ PyAbs(n) % PyAbs(d) = 0

\* The greatest common divisor of |a| and |b| by definition (0 for 0, 0).
MathGcd(a, b) ==
    IF a = 0 /\ b = 0 THEN 0
    ELSE CHOOSE d \in 1..(PyAbs(a) + PyAbs(b)) :
            /\ (a = 0 \/ Divides(d, a)) /\ (b = 0 \/ Divides(d, b))
            /\ \A e \in (d + 1)..(PyAbs(a) + PyAbs(b)) :
                  ~((a = 0 \/ Divides(e, a)) /\ (b = 0 \/ Divides(e, b)))

Coprime(a, b) == \A d \in 2..PyAbs(a) : ~(Divides(d, a) /\ Divides(d, b))

PairwiseCoprime(M) ==
    \A i \in 1..Len(M), j \in 1..Len(M) : i < j => Coprime(M[i], M[j])

\* The least common multiple of the magnitudes of the moduli of rm.
RECURSIVE LcmFrom(_, _, _)
LcmFrom(rm, i, acc) ==
    IF i > Len(rm) THEN acc
    ELSE LET m == PyAbs(rm[i][2])
         IN  LcmFrom(rm, i + 1,
                     CHOOSE l \in {acc * k : k \in 1..m} :
                        /\ Divides(m, l)
                        /\ \A k \in 1..m : (acc * k < l) => ~Divides(m, acc * k))

Lcm(rm) == LcmFrom(rm, 1, 1)

\* x satisfies every congruence of the system rm.
Satisfies(x, rm) == \A i \in 1..Len(rm) : Divides(rm[i][2], x - rm[i][1])

\* Some integer satisfies rm (the solutions repeat with period Lcm(rm)).
Solvable(rm) == \E x \in 0..(Lcm(rm) - 1) : Satisfies(x, rm)

\* The permutations of 1..k, for every length k an input system can have.
PermutationTable ==
    [k \in {Len(rm) : rm \in SolveInputs} |->
        {p \in [1..k -> 1..k] : \A i, j \in 1..k : p[i] = p[j] => i = j}]

Permutations(k) == PermutationTable[k]

Permute(rm, p) == [i \in 1..Len(rm) |-> rm[p[i]]]

\* The product of the entries of M.
RECURSIVE Product(_)
Product(M) == IF M = <<>> THEN 1 ELSE Head(M) * Product(Tail(M))

\* The sign of the combined modulus the fold ends with: the product of the
\* signs of the moduli combined, which are all the pairs without the check and
\* one pair per distinct modulus with it.
CombinedSign(rm, check) ==
    LET neg == IF check
               THEN Cardinality({rm[i][2] : i \in {j \in 1..Len(rm) : rm[j][2] < 0}})
               ELSE Cardinality({j \in 1..Len(rm) : rm[j][2] < 0})
    IN  IF neg % 2 = 0 THEN 1 ELSE -1

\* Some negative modulus occurs in more than one pair of rm.
RepeatsNegativeModulus(rm) ==
    \E i, j \in 1..Len(rm) : i < j /\ rm[i][2] < 0 /\ rm[i][2] = rm[j][2]

(***************************************************************************)
(* C1: for equal-length residues V and positive pairwise-coprime moduli M  *)
(* (n >= 1), crt(M, V) with the default check returns the pair             *)
(* (_crt(V, M), product(M)); crt([99,97,95],[49,76,65]) = (639985, 912285).*)
(***************************************************************************)
C1_CrtReturnsPair ==
    (Done("crt") /\ args[3] /\ PairwiseCoprime(args[1])) =>
        /\ result = PyTuple(_crt(args[2], args[1]), Product(args[1]))
        /\ (args[1] = <<99, 97, 95>> /\ args[2] = <<49, 76, 65>>)
              => result = PyTuple(639985, 912285)

(***************************************************************************)
(* C2: for a non-empty satisfiable system, solve_congruence returns a pair *)
(* (value, modulus) whose second component is the least common multiple of *)
(* the magnitudes of the moduli; ((2,3),(3,5),(2,7)) gives (23, 105) and   *)
(* ((2,3),(5,6)) gives (5, 6).                                             *)
(***************************************************************************)
C2_SolveReturnsPair ==
    (Done("solve_congruence") /\ Len(args[1]) >= 1 /\ Solvable(args[1])) =>
        /\ result.type = "tuple"
        /\ result.items[2] = Lcm(args[1])
        /\ args[1] = <<<<2, 3>>, <<3, 5>>, <<2, 7>>>> => result = PyTuple(23, 105)
        /\ args[1] = <<<<2, 3>>, <<5, 6>>>> => result = PyTuple(5, 6)

(***************************************************************************)
(* C3: for a non-empty system with non-zero moduli and either value of     *)
(* check, solve_congruence returns None exactly when no integer satisfies  *)
(* all the congruences, and otherwise the value returned satisfies every   *)
(* one of them; ((2,3),(4,6)) gives None.                                  *)
(***************************************************************************)
C3_SolveNoneIffUnsolvable ==
    (Done("solve_congruence") /\ Len(args[1]) >= 1) =>
        /\ (result = None) <=> ~Solvable(args[1])
        /\ result # None =>
              (result.type = "int" /\ Satisfies(result.int, args[1]))
        /\ args[1] = <<<<2, 3>>, <<4, 6>>>> => result = None

C3_Witness ==
    /\ Done("solve_congruence")
    /\ Len(args[1]) = 2
    /\ PyAbs(args[1][1][2]) # PyAbs(args[1][2][2])
    /\ ~Coprime(args[1][1][2], args[1][2][2])
    /\ args[1][1][2] # 1 /\ args[1][2][2] < 0
    /\ result = None

(***************************************************************************)
(* C4: for equal-length residues and positive moduli, coprime or not,      *)
(* crt with check enabled returns None exactly when the system has no      *)
(* solution and otherwise a value congruent to v_i modulo m_i for every i: *)
(* a wrong _crt result fails the residue check and the general solver      *)
(* answers.                                                                *)
(***************************************************************************)
C4_CrtCheckedCorrect ==
    (Done("crt") /\ args[3]) =>
        LET rm == [i \in 1..Len(args[1]) |-> <<args[2][i], args[1][i]>>]
        IN  /\ (result = None) <=> ~Solvable(rm)
            /\ result # None =>
                  (result.type = "int" /\ Satisfies(result.int, rm))

C4_Witness ==
    /\ Done("crt")
    /\ args[3]
    /\ ~PairwiseCoprime(args[1])
    /\ result.type = "int"
    /\ result.int # _crt(args[2], args[1])

(***************************************************************************)
(* C5: for all integers a, b (zero, positive or negative), gcdex(a, b)     *)
(* returns (x, y, g) with x*a + y*b = g, g = gcd(|a|, |b|) and g >= 0.     *)
(***************************************************************************)
C5_GcdexBezout ==
    Done("gcdex") =>
        LET a == args[1]
            b == args[2]
            x == result.items[1]
            y == result.items[2]
            g == result.items[3]
        IN  /\ x * a + y * b = g
            /\ g = MathGcd(a, b)
            /\ g >= 0

C5_Witness ==
    /\ Done("gcdex")
    /\ args[1] < 0
    /\ args[2] > 1
    /\ result.items[3] > 1
    /\ result.items[1] # 0
    /\ result.items[2] # 0

(***************************************************************************)
(* C6: for positive pairwise-coprime moduli M (n >= 1) and residues U with *)
(* 0 <= U[i] < M[i], v = _crt(U, M) has v mod M[i] = U[i] for every i and  *)
(* 0 <= v < product(M); _crt([49,76,65],[99,97,95]) = 639985.              *)
(***************************************************************************)
C6_CrtDirectRoundTrip ==
    (/\ Done("_crt")
     /\ PairwiseCoprime(args[2])
     /\ \A i \in 1..Len(args[2]) : 0 <= args[1][i] /\ args[1][i] < args[2][i]) =>
        /\ \A i \in 1..Len(args[2]) : result.int % args[2][i] = args[1][i]
        /\ 0 <= result.int /\ result.int < Product(args[2])
        /\ (args[1] = <<49, 76, 65>> /\ args[2] = <<99, 97, 95>>)
              => result.int = 639985

C6_Witness ==
    /\ Done("_crt")
    /\ Len(args[2]) >= 2
    /\ PairwiseCoprime(args[2])
    /\ \A i \in 1..Len(args[2]) :
          args[2][i] > 1 /\ 0 < args[1][i] /\ args[1][i] < args[2][i]
    /\ \E i \in 1..Len(args[2]) : result.int # args[1][i]

(***************************************************************************)
(* C7: for a sequence of pairs of any length, zero included, with non-zero *)
(* moduli and either value of check, solve_congruence ends by returning a  *)
(* value (None or a solution) and never by raising an exception.           *)
(***************************************************************************)
C7_SolveNeverRaises ==
    Done("solve_congruence") => result.type \in {"NoneType", "int", "tuple"}

(***************************************************************************)
(* C8 as stated: for a non-empty satisfiable system with non-zero moduli,  *)
(* negative ones included, the moduli are normalized to their magnitude    *)
(* and the value returned lies in 0 <= value < modulus.                    *)
(***************************************************************************)
C8_ValueReducedNonNegative ==
    (Done("solve_congruence") /\ Len(args[1]) >= 1 /\ result.type = "int") =>
        (0 <= result.int /\ result.int < Lcm(args[1]))

(***************************************************************************)
(* C8 as amended: negative moduli are not normalized.  The value returned  *)
(* is reduced against the signed combined modulus, whose magnitude is the  *)
(* least common multiple L of the magnitudes and whose sign is the product *)
(* of the signs of the moduli combined: 0 <= value < L when it is positive *)
(* (so whenever every modulus is positive), -L < value <= 0 when negative. *)
(***************************************************************************)
C8_ValueReducedSigned ==
    (Done("solve_congruence") /\ Len(args[1]) >= 1 /\ result.type = "int") =>
        LET L == Lcm(args[1])
        IN  /\ CombinedSign(args[1], args[2]) = 1 =>
                  (0 <= result.int /\ result.int < L)
            /\ CombinedSign(args[1], args[2]) = -1 =>
                  (-L < result.int /\ result.int <= 0)
            /\ (\A i \in 1..Len(args[1]) : args[1][i][2] > 0) =>
                  (0 <= result.int /\ result.int < L)

C8_Witness ==
    /\ Done("solve_congruence")
    /\ Len(args[1]) = 2
    /\ args[1][1][2] < -1
    /\ args[1][2][2] > 1
    /\ result.type = "int"
    /\ result.int < 0

(***************************************************************************)
(* C9: the order of the pairs does not affect the result: for a non-empty  *)
(* system with non-zero moduli and every permutation of it,                *)
(* solve_congruence returns the same result, with either value of check.   *)
(***************************************************************************)
C9_OrderIndependent ==
    (Done("solve_congruence") /\ Len(args[1]) >= 1) =>
        \A p \in Permutations(Len(args[1])) :
            solve_congruence(Permute(args[1], p), args[2]) = result

C9_Witness ==
    /\ Done("solve_congruence")
    /\ Len(args[1]) >= 2
    /\ args[1][1][2] # args[1][2][2]
    /\ ~Coprime(args[1][1][2], args[1][2][2])
    /\ PyAbs(args[1][1][2]) > 1 /\ PyAbs(args[1][2][2]) > 1
    /\ result.type = "int"
    /\ result.int # 0

(***************************************************************************)
(* C10 as stated: for a non-empty system with non-zero moduli,             *)
(* solve_congruence with check=True and with check=False return the same   *)
(* result.                                                                 *)
(***************************************************************************)
C10_CheckFlagSameResult ==
    (Done("solve_congruence") /\ Len(args[1]) >= 1) =>
        solve_congruence(args[1], ~args[2]) = result

(***************************************************************************)
(* C10 as amended: the two return the same result unless some negative     *)
(* modulus occurs in more than one pair; in that case too both return None *)
(* or both return a solution, the two solutions congruent modulo the least *)
(* common multiple of the magnitudes of the moduli.                        *)
(***************************************************************************)
C10_CheckFlagSameUpToSign ==
    (Done("solve_congruence") /\ Len(args[1]) >= 1) =>
        LET other == solve_congruence(args[1], ~args[2])
        IN  /\ ~RepeatsNegativeModulus(args[1]) => other = result
            /\ (other = None) <=> (result = None)
            /\ result # None =>
                  /\ result.type = "int" /\ other.type = "int"
                  /\ Divides(Lcm(args[1]), other.int - result.int)

C10_Witness ==
    /\ Done("solve_congruence")
    /\ args[2]
    /\ RepeatsNegativeModulus(args[1])
    /\ result.type = "int"
    /\ solve_congruence(args[1], FALSE) # result

=============================================================================
